---------------------------- MODULE Spec2Model ----------------------------
(***************************************************************************)
(* A model of sismic's StateChart container (src/sismic/model.py): the    *)
(* registration of states and transitions, validate(), and the memoized   *)
(* structural queries ancestors_for, descendants_for, depth_for,          *)
(* least_common_ancestor and leaf_for; and of story_from_trace             *)
(* (src/sismic/testing.py) over the MicroStep and MacroStep records.       *)
(*                                                                         *)
(* A Python exception is modelled by the status of the call's outcome; a  *)
(* loop that can never end by the status "diverges".  State names, events *)
(* and guards are non-empty strings; Python's None is the value None.     *)
(* The name -> State dict is the function states together with order,     *)
(* the order in which its keys were inserted (dict iteration order).      *)
(***************************************************************************)
EXTENDS Naturals, Sequences, FiniteSets, TLC

VARIABLES
    states,       \* StateChart._states: name -> State object
    order,        \* insertion order of the keys of _states
    parent,       \* StateChart._parent: name -> parent name or None
    transitions,  \* StateChart.transitions: list of Transition
    cache_anc,    \* lru_cache of ancestors_for: state -> list
    cache_desc,   \* lru_cache of descendants_for: state -> list
    cache_depth,  \* lru_cache of depth_for: state -> int
    cache_lca,    \* lru_cache of least_common_ancestor: <<s1, s2>> -> name or None
    result        \* the last call and its outcome

vars == <<states, order, parent, transitions,
          cache_anc, cache_desc, cache_depth, cache_lca, result>>

---------------------------------------------------------------------------
(* Values *)

None == "None"

\* Python truthiness of a str-or-None value: None and '' are falsy.
Truthy(v) == v # None /\ v # ""

Root == "R"

EmptyMap == [x \in {} |-> x]

Range(s) == {s[i] : i \in 1..Len(s)}

StateKinds ==
    {"BasicState", "CompoundState", "OrthogonalState", "HistoryState", "FinalState"}

\* isinstance(state, CompositeStateMixin): the state has a children list.
IsComposite(kind) == kind \in {"CompoundState", "OrthogonalState"}

\* The classes that inherit TransitionStateMixin: the state has a transitions list.
HasTransitions(kind) == kind \in {"BasicState", "CompoundState", "OrthogonalState"}

\* The classes whose constructor takes initial.
HasInitial(kind) == kind \in {"CompoundState", "HistoryState"}

\* A freshly constructed state object: empty children and transitions lists.
NewState(kind, initial) ==
    [kind |-> kind,
     initial |-> IF HasInitial(kind) THEN initial ELSE None,
     children |-> <<>>,
     transitions |-> <<>>]

Transition(from_state, to_state, event, guard) ==
    [from_state |-> from_state, to_state |-> to_state, event |-> event, guard |-> guard]

\* The record of a call: its name, its arguments, and how it ended.
Call(op, args, status, value) ==
    [op |-> op, args |-> args, status |-> status, value |-> value]

---------------------------------------------------------------------------
(* StateChart.__init__ *)

InitChart(rootKind, rootInitial) ==
    /\ states = (Root :> NewState(rootKind, rootInitial))
    /\ order = <<Root>>
    /\ parent = (Root :> None)
    /\ transitions = <<>>
    /\ cache_anc = EmptyMap
    /\ cache_desc = EmptyMap
    /\ cache_depth = EmptyMap
    /\ cache_lca = EmptyMap
    /\ result = Call("__init__", <<>>, "ok", None)

---------------------------------------------------------------------------
(* StateChart.register_state *)

\* The chart after lines 347-348: the state and its parent are stored.
StoredStates(name, kind, initial) == states @@ (name :> NewState(kind, initial))

\* Outcome of line 351, the lookup of the parent and the append to its children.
RegisterOnParent(name, kind, initial, par) ==
    LET stored == StoredStates(name, kind, initial)
    IN  IF par \notin DOMAIN stored
        THEN [states |-> stored, status |-> "KeyError"]
        ELSE IF ~IsComposite(stored[par].kind)
        THEN [states |-> stored, status |-> "AttributeError"]
        ELSE [states |-> [stored EXCEPT ![par].children = Append(@, name)],
              status |-> "ok"]

\* register_state without the test of line 345: the entries of the name are
\* overwritten and the name is appended to the parent's children once more.
RegisterStateUnchecked(name, kind, initial, par) ==
    LET stored == [n \in DOMAIN states \cup {name} |->
                      IF n = name THEN NewState(kind, initial) ELSE states[n]]
        listed == IF par \in DOMAIN stored /\ IsComposite(stored[par].kind)
                  THEN [stored EXCEPT ![par].children = Append(@, name)]
                  ELSE stored
    IN  /\ states' = listed
        /\ order' = IF name \in DOMAIN states THEN order ELSE Append(order, name)
        /\ parent' = [n \in DOMAIN parent \cup {name} |->
                         IF n = name THEN par ELSE parent[n]]
        /\ result' = Call("register_state", <<name, par>>,
                           IF par \notin DOMAIN stored THEN "KeyError"
                           ELSE IF ~IsComposite(stored[par].kind)
                           THEN "AttributeError" ELSE "ok",
                           None)
        /\ UNCHANGED <<transitions, cache_anc, cache_desc, cache_depth, cache_lca>>

RegisterState(name, kind, initial, par) ==
    /\ IF name \in DOMAIN states
       THEN /\ result' = Call("register_state", <<name, par>>,
                                 "InvalidStatechartError", None)
            /\ UNCHANGED <<states, order, parent>>
       ELSE LET out == RegisterOnParent(name, kind, initial, par)
            IN  /\ states' = out.states
                /\ order' = Append(order, name)
                /\ parent' = parent @@ (name :> par)
                /\ result' = Call("register_state", <<name, par>>, out.status, None)
    /\ UNCHANGED <<transitions, cache_anc, cache_desc, cache_depth, cache_lca>>

---------------------------------------------------------------------------
(* StateChart.register_transition *)

RegisterTransition(t) ==
    /\ transitions' = Append(transitions, t)
    /\ IF t.from_state \notin DOMAIN states
       THEN /\ result' = Call("register_transition", <<t>>, "KeyError", None)
            /\ UNCHANGED states
       ELSE IF ~HasTransitions(states[t.from_state].kind)
       THEN /\ result' = Call("register_transition", <<t>>, "AttributeError", None)
            /\ UNCHANGED states
       ELSE /\ states' = [states EXCEPT ![t.from_state].transitions = Append(@, t)]
            /\ result' = Call("register_transition", <<t>>, "ok", None)
    /\ UNCHANGED <<order, parent, cache_anc, cache_desc, cache_depth, cache_lca>>

---------------------------------------------------------------------------
(* StateChart.validate *)

\* dict.get(key, None) on _states, as a kind: the kind of the state or None.
KindOf(name) == IF name \in DOMAIN states THEN states[name].kind ELSE None

\* Lines 494-500: the first loop over the transitions, from the i-th on.
\* The rule that raises, or None when the loop ends.
RECURSIVE CheckTransitions(_)
CheckTransitions(i) ==
    IF i > Len(transitions) THEN None
    ELSE LET t == transitions[i]
         IN  IF ~(/\ t.from_state \in DOMAIN states
                  /\ (~Truthy(t.to_state) \/ t.to_state \in DOMAIN states))
             THEN "C1"
             ELSE IF ~Truthy(t.event) /\ ~Truthy(t.guard) /\ ~Truthy(t.to_state)
             THEN "C5"
             ELSE CheckTransitions(i + 1)

\* The loop of lines 502-518 with the C3 test placed before the C4 test.
RECURSIVE CheckStatesInitialFirst(_)
CheckStatesInitialFirst(i) ==
    IF i > Len(order) THEN None
    ELSE LET name == order[i]
             state == states[name]
             par == IF name \in DOMAIN parent THEN parent[name] ELSE None
         IN  IF state.kind = "HistoryState" /\ KindOf(par) # "CompoundState"
             THEN "C2"
             ELSE IF /\ state.kind = "CompoundState"
                     /\ Truthy(state.initial)
                     /\ state.initial \notin Range(state.children)
             THEN "C3"
             ELSE IF IsComposite(state.kind) /\ Len(state.children) <= 0
             THEN "C4"
             ELSE CheckStatesInitialFirst(i + 1)

\* Lines 502-518: the loop over _states.items(), from the i-th inserted key on.
RECURSIVE CheckStates(_)
CheckStates(i) ==
    IF i > Len(order) THEN None
    ELSE LET name == order[i]
             state == states[name]
             par == IF name \in DOMAIN parent THEN parent[name] ELSE None
         IN  IF state.kind = "HistoryState" /\ KindOf(par) # "CompoundState"
             THEN "C2"
             ELSE IF IsComposite(state.kind) /\ Len(state.children) <= 0
             THEN "C4"
             ELSE IF /\ state.kind = "CompoundState"
                     /\ Truthy(state.initial)
                     /\ state.initial \notin Range(state.children)
             THEN "C3"
             ELSE CheckStates(i + 1)

\* Line 521 without the default of the lookup: an internal transition has no
\* target state, so nothing is asked of its source.
TargetOfExternalOnly(t) ==
    IF t.from_state \notin DOMAIN states THEN [status |-> "KeyError"]
    ELSE IF t.to_state \in DOMAIN states
    THEN [status |-> "ok", kind |-> states[t.to_state].kind,
          initial |-> states[t.to_state].initial]
    ELSE [status |-> "ok", kind |-> None, initial |-> None]

\* Line 521: self._states.get(transition.to_state, self._states[transition.from_state]);
\* the default is evaluated first and raises KeyError on an unknown source.
TargetKindAndInitial(t) ==
    IF t.from_state \notin DOMAIN states THEN [status |-> "KeyError"]
    ELSE LET target == IF t.to_state \in DOMAIN states THEN states[t.to_state]
                       ELSE states[t.from_state]
         IN  [status |-> "ok", kind |-> target.kind, initial |-> target.initial]

\* Lines 520-524: the second loop over the transitions, from the i-th on.
RECURSIVE CheckTargets(_)
CheckTargets(i) ==
    IF i > Len(transitions) THEN None
    ELSE LET target == TargetKindAndInitial(transitions[i])
         IN  IF target.status # "ok" THEN target.status
             ELSE IF target.kind = "CompoundState" /\ ~Truthy(target.initial)
             THEN "C6"
             ELSE CheckTargets(i + 1)

\* The rule validate() raises InvalidStatechartError for, or "True" when it returns.
validate ==
    LET first == CheckTransitions(1)
    IN  IF first # None THEN first
        ELSE LET second == CheckStates(1)
             IN  IF second # None THEN second
                 ELSE LET third == CheckTargets(1)
                      IN  IF third # None THEN third ELSE "True"

Validate ==
    /\ result' = (LET v == validate
                  IN  IF v = "True" THEN Call("validate", <<>>, "ok", "True")
                      ELSE IF v = "KeyError"
                      THEN Call("validate", <<>>, "KeyError", None)
                      ELSE Call("validate", <<>>, "InvalidStatechartError", v))
    /\ UNCHANGED <<states, order, parent, transitions,
                   cache_anc, cache_desc, cache_depth, cache_lca>>

---------------------------------------------------------------------------
(* The memoized structural queries.  functools.lru_cache stores a call's   *)
(* return value under its arguments and serves it on later calls; a call   *)
(* that raises, or never returns, stores nothing.  The default maxsize of  *)
(* 128 entries is never reached by the charts modelled here, so no entry   *)
(* is ever evicted.                                                        *)

Returned(value) == [status |-> "ok", value |-> value]

Failed(status) == [status |-> status, value |-> None]

\* lru_cache's wrapper around a call whose uncached outcome is computed.
Memoized(cache, key, computed) ==
    IF key \in DOMAIN cache THEN Returned(cache[key]) ELSE computed

\* The cache after that call.
Stored(cache, key, computed) ==
    IF key \notin DOMAIN cache /\ computed.status = "ok"
    THEN cache @@ (key :> computed.value)
    ELSE cache

\* Lines 406-408: the while loop of ancestors_for with parent = p and
\* ancestors = acc.  A value of parent that recurs means the loop never ends.
RECURSIVE AncestorsWalk(_, _)
AncestorsWalk(p, acc) ==
    IF ~Truthy(p) THEN Returned(acc)
    ELSE IF p \in Range(acc) THEN Failed("diverges")
    ELSE IF p \notin DOMAIN parent THEN Failed("KeyError")
    ELSE AncestorsWalk(parent[p], Append(acc, p))

\* Lines 404-409: the body of ancestors_for.
AncestorsBody(state) ==
    IF state \notin DOMAIN parent THEN Failed("KeyError")
    ELSE AncestorsWalk(parent[state], <<>>)

AncestorsCall(anc, state) == Memoized(anc, state, AncestorsBody(state))

AncestorsStored(anc, state) == Stored(anc, state, AncestorsBody(state))

\* The children the loop of descendants_for appends for a popped state.
ChildrenList(name) ==
    IF IsComposite(states[name].kind) THEN states[name].children ELSE <<>>

RECURSIVE ChildClosure(_)
ChildClosure(S) ==
    LET T == S \cup UNION {Range(ChildrenList(n)) : n \in S}
    IN  IF T = S THEN S ELSE ChildClosure(T)

\* The loop of descendants_for never empties states_to_consider exactly when a
\* state it pops lies on a cycle of the children lists.
OnChildCycle(state) ==
    \E n \in ChildClosure({state}) : n \in ChildClosure(Range(ChildrenList(n)))

\* Lines 422-428: the while loop of descendants_for.
RECURSIVE DescendantsWalk(_, _)
DescendantsWalk(states_to_consider, descendants) ==
    IF states_to_consider = <<>> THEN descendants
    ELSE LET kids == ChildrenList(Head(states_to_consider))
         IN  DescendantsWalk(Tail(states_to_consider) \o kids, descendants \o kids)

\* Lines 420-429: the body of descendants_for.
DescendantsBody(state) ==
    IF state \notin DOMAIN states THEN Failed("KeyError")
    ELSE IF OnChildCycle(state) THEN Failed("diverges")
    ELSE Returned(DescendantsWalk(<<state>>, <<>>))

DescendantsCall(desc, state) == Memoized(desc, state, DescendantsBody(state))

DescendantsStored(desc, state) == Stored(desc, state, DescendantsBody(state))

\* Lines 439-440: the body of depth_for, with the ancestors cache it reads.
DepthBody(anc, state) ==
    LET ancestors == AncestorsCall(anc, state)
    IN  IF ancestors.status = "ok" THEN Returned(Len(ancestors.value) + 1)
        ELSE Failed(ancestors.status)

\* Lines 454-456: the first state of s1_anc that is in s2_anc, else None.
RECURSIVE FirstCommon(_, _)
FirstCommon(s1_anc, s2_anc) ==
    IF s1_anc = <<>> THEN None
    ELSE IF Head(s1_anc) \in Range(s2_anc) THEN Head(s1_anc)
    ELSE FirstCommon(Tail(s1_anc), s2_anc)

\* The body of least_common_ancestor with s2 counted among its own ancestors.
LcaBodyOrSelf(anc, s1, s2) ==
    LET s1_anc == AncestorsCall(anc, s1)
        s2_anc == AncestorsCall(AncestorsStored(anc, s1), s2)
    IN  IF s1_anc.status # "ok" THEN Failed(s1_anc.status)
        ELSE IF s2_anc.status # "ok" THEN Failed(s2_anc.status)
        ELSE Returned(FirstCommon(s1_anc.value, <<s2>> \o s2_anc.value))

\* Lines 452-456: the body of least_common_ancestor, with the ancestors cache.
LcaBody(anc, s1, s2) ==
    LET s1_anc == AncestorsCall(anc, s1)
        s2_anc == AncestorsCall(AncestorsStored(anc, s1), s2)
    IN  IF s1_anc.status # "ok" THEN Failed(s1_anc.status)
        ELSE IF s2_anc.status # "ok" THEN Failed(s2_anc.status)
        ELSE Returned(FirstCommon(s1_anc.value, s2_anc.value))

\* The ancestors cache after the body of least_common_ancestor.
LcaAncestorsStored(anc, s1, s2) ==
    IF AncestorsCall(anc, s1).status # "ok" THEN anc
    ELSE AncestorsStored(AncestorsStored(anc, s1), s2)

\* Lines 469-476: the loop of leaf_for from the i-th element of names on, with
\* leaves so far and the descendants cache desc; the outcome and the cache left.
RECURSIVE LeafWalk(_, _, _, _)
LeafWalk(names, i, leaves, desc) ==
    IF i > Len(names) THEN [status |-> "ok", value |-> leaves, desc |-> desc]
    ELSE LET state == names[i]
             found == DescendantsCall(desc, state)
             after == DescendantsStored(desc, state)
         IN  IF found.status # "ok"
             THEN [status |-> found.status, value |-> None, desc |-> after]
             ELSE LET keep == Range(found.value) \cap Range(names) = {}
                  IN  LeafWalk(names, i + 1,
                               IF keep THEN Append(leaves, state) ELSE leaves, after)

(* What a call returns in the current state of the chart and of its caches. *)

ancestors_for(state) == AncestorsCall(cache_anc, state)

descendants_for(state) == DescendantsCall(cache_desc, state)

depth_for(state) == Memoized(cache_depth, state, DepthBody(cache_anc, state))

least_common_ancestor(s1, s2) ==
    Memoized(cache_lca, <<s1, s2>>, LcaBody(cache_anc, s1, s2))

leaf_for(names) ==
    LET out == LeafWalk(names, 1, <<>>, cache_desc)
    IN  [status |-> out.status, value |-> out.value]

Outcome(op, args, out) == Call(op, args, out.status, out.value)

(* The calls. *)

AncestorsFor(state) ==
    /\ result' = Outcome("ancestors_for", <<state>>, ancestors_for(state))
    /\ cache_anc' = AncestorsStored(cache_anc, state)
    /\ UNCHANGED <<states, order, parent, transitions,
                   cache_desc, cache_depth, cache_lca>>

DescendantsFor(state) ==
    /\ result' = Outcome("descendants_for", <<state>>, descendants_for(state))
    /\ cache_desc' = DescendantsStored(cache_desc, state)
    /\ UNCHANGED <<states, order, parent, transitions,
                   cache_anc, cache_depth, cache_lca>>

DepthFor(state) ==
    /\ result' = Outcome("depth_for", <<state>>, depth_for(state))
    /\ cache_depth' = Stored(cache_depth, state, DepthBody(cache_anc, state))
    /\ cache_anc' = IF state \in DOMAIN cache_depth THEN cache_anc
                    ELSE AncestorsStored(cache_anc, state)
    /\ UNCHANGED <<states, order, parent, transitions, cache_desc, cache_lca>>

LeastCommonAncestor(s1, s2) ==
    /\ result' = Outcome("least_common_ancestor", <<s1, s2>>,
                          least_common_ancestor(s1, s2))
    /\ cache_lca' = Stored(cache_lca, <<s1, s2>>, LcaBody(cache_anc, s1, s2))
    /\ cache_anc' = IF <<s1, s2>> \in DOMAIN cache_lca THEN cache_anc
                    ELSE LcaAncestorsStored(cache_anc, s1, s2)
    /\ UNCHANGED <<states, order, parent, transitions, cache_desc, cache_depth>>

LeafFor(names) ==
    /\ result' = Outcome("leaf_for", <<names>>, leaf_for(names))
    /\ cache_desc' = LeafWalk(names, 1, <<>>, cache_desc).desc
    /\ UNCHANGED <<states, order, parent, transitions,
                   cache_anc, cache_depth, cache_lca>>

---------------------------------------------------------------------------
(* The registration of states, repeated names included. *)

RegisterNames == {Root, "A", "B"}

\* The parents named: the root, a state (registered or not, or the state
\* itself), or None.
RegisterParents == RegisterNames \cup {None}

RegisterInit ==
    \E kind \in {"CompoundState", "OrthogonalState"} : InitChart(kind, None)

RegisterNext ==
    \E name \in RegisterNames, kind \in StateKinds, par \in RegisterParents :
        RegisterState(name, kind, None, par)

SpecRegister == RegisterInit /\ [][RegisterNext]_vars

---------------------------------------------------------------------------
(* The builder: states of distinct names and transitions are registered,   *)
(* and the chart is validated.                                             *)

\* The state objects a builder constructs, as <<name, kind, initial>>.
BuildStates ==
    {<<"A", "CompoundState", None>>, <<"A", "CompoundState", "B">>,
     <<"A", "OrthogonalState", None>>, <<"A", "BasicState", None>>,
     <<"B", "HistoryState", None>>, <<"B", "FinalState", None>>,
     <<"B", "BasicState", None>>}

\* The parents a builder names: the root, a state, or None.
BuildParents == {Root, "A", None}

\* The transitions a builder constructs.
BuildTransitions ==
    {Transition("A", None, None, None), Transition("A", None, "e", None),
     Transition("A", None, None, "g"), Transition("A", "B", None, None),
     Transition("B", "A", "e", None), Transition("B", None, None, None)}

MaxTransitions == 2

\* The roots a chart is constructed with: a compound or an orthogonal state.
BuildRoots ==
    {<<"CompoundState", None>>, <<"CompoundState", "A">>, <<"OrthogonalState", None>>}

Init == \E r \in BuildRoots : InitChart(r[1], r[2])

Next ==
    \/ \E s \in BuildStates, par \in BuildParents :
            /\ s[1] \notin DOMAIN states
            /\ RegisterState(s[1], s[2], s[3], par)
    \/ \E t \in BuildTransitions :
            /\ Len(transitions) < MaxTransitions
            /\ RegisterTransition(t)
    \/ Validate

Spec == Init /\ [][Next]_vars

---------------------------------------------------------------------------
(* Properties of the registered hierarchy (under SpecRegister) and of the   *)
(* registered transitions and validate() (under Spec).                     *)

\* The number of times name occurs in the list.
Occurrences(list, name) == Cardinality({i \in 1..Len(list) : list[i] = name})

\* The place of a registered name in the registration order.
Position(name) == CHOOSE i \in 1..Len(order) : order[i] = name

\* The list is in registration order.
InRegistrationOrder(list) ==
    \A i \in 1..Len(list) : \A j \in 1..Len(list) :
        i < j => Position(list[i]) < Position(list[j])

\* C1: after any sequence of register_state calls the root has no parent, and
\* every other registered state has a registered parent whose children list
\* holds the state's name exactly once, the children in registration order.
C1_ParentChildLinks ==
    /\ parent[Root] = None
    /\ \A s \in DOMAIN states \ {Root} :
          /\ parent[s] \in DOMAIN states
          /\ IsComposite(states[parent[s]].kind)
          /\ Occurrences(states[parent[s]].children, s) = 1
    /\ \A p \in DOMAIN states : InRegistrationOrder(states[p].children)

\* No name is registered twice: the keys were inserted once each, and no name
\* is listed twice among the children of the chart's states.
NamesUnique ==
    /\ \A i \in 1..Len(order) : \A j \in 1..Len(order) : order[i] = order[j] => i = j
    /\ Range(order) = DOMAIN states
    /\ DOMAIN parent = DOMAIN states
    /\ \A n \in DOMAIN states : \A p \in DOMAIN states : \A q \in DOMAIN states :
          /\ Occurrences(states[p].children, n) <= 1
          /\ (n \in Range(states[p].children) /\ n \in Range(states[q].children))
                => p = q

\* C2: a register_state call with a name that is already registered (the
\* root's included) raises InvalidStatechartError and leaves _states, _parent
\* and every children list as they were; so names stay unique.
C2_DuplicateRejected ==
    [][/\ (result'.op = "register_state" /\ result'.args[1] \in DOMAIN states)
            => /\ result'.status = "InvalidStatechartError"
               /\ UNCHANGED <<states, order, parent>>
       /\ NamesUnique']_vars

\* A duplicate registration was just rejected, of a state other than the only
\* one (the chart holds the root and two more states).
C2_Witness ==
    /\ result.op = "register_state"
    /\ result.status = "InvalidStatechartError"
    /\ Len(order) = 3

\* The transitions of the global list whose from_state is the state.
TransitionsFrom(name) == SelectSeq(transitions, LAMBDA t : t.from_state = name)

\* C3: after any sequence of register_transition calls, every transition of the
\* global list is in the transitions list of the state its from_state names,
\* and every state's own list is the global list restricted to that state.
C3_TransitionsMirrored ==
    /\ \A i \in 1..Len(transitions) :
          /\ transitions[i].from_state \in DOMAIN states
          /\ transitions[i] \in Range(states[transitions[i].from_state].transitions)
    /\ \A s \in DOMAIN states : states[s].transitions = TransitionsFrom(s)

\* C4: register_transition of a transition whose from_state is not registered
\* completes without error, leaving validate() to report it.
C4_DanglingSourceAccepted ==
    [][(/\ result'.op = "register_transition"
        /\ result'.args[1].from_state \notin DOMAIN states)
            => result'.status = "ok"]_vars

(* The six rules of validate(), each stated of one transition or one state. *)

RuleC1(t) ==
    /\ t.from_state \in DOMAIN states
    /\ t.to_state # None => t.to_state \in DOMAIN states

\* Transition.internal and Transition.eventless (lines 265-277), and no guard.
RuleC5(t) == ~(t.to_state = None /\ t.event = None /\ t.guard = None)

RuleC2(s) ==
    states[s].kind = "HistoryState"
        => /\ parent[s] \in DOMAIN states
           /\ states[parent[s]].kind = "CompoundState"

RuleC4(s) == IsComposite(states[s].kind) => Len(states[s].children) >= 1

RuleC3(s) ==
    (states[s].kind = "CompoundState" /\ states[s].initial # None)
        => states[s].initial \in Range(states[s].children)

\* The effective target: to_state if present, else the source state.
EffectiveTarget(t) == IF t.to_state # None THEN t.to_state ELSE t.from_state

RuleC6(t) ==
    (/\ EffectiveTarget(t) \in DOMAIN states
     /\ states[EffectiveTarget(t)].kind = "CompoundState")
        => states[EffectiveTarget(t)].initial # None

WellFormed ==
    /\ \A i \in 1..Len(transitions) :
          RuleC1(transitions[i]) /\ RuleC5(transitions[i]) /\ RuleC6(transitions[i])
    /\ \A s \in DOMAIN states : RuleC2(s) /\ RuleC4(s) /\ RuleC3(s)

\* C5: validate() returns True exactly when the chart breaks none of the six
\* rules, and raises InvalidStatechartError otherwise.
C5_ValidateIffWellFormed ==
    result.op = "validate"
        => /\ (result.status = "ok") <=> WellFormed
           /\ result.status = "ok" => result.value = "True"
           /\ result.status # "ok"
                => /\ result.status = "InvalidStatechartError"
                   /\ result.value \in {"C1", "C2", "C3", "C4", "C5", "C6"}

\* validate() returned True for a chart of three states and two transitions,
\* one of them internal on a CompoundState.
C5_Witness ==
    /\ result.op = "validate"
    /\ result.status = "ok"
    /\ Len(order) = 3
    /\ Len(transitions) = 2
    /\ \E i \in 1..Len(transitions) :
          /\ transitions[i].to_state = None
          /\ states[transitions[i].from_state].kind = "CompoundState"

Least(S) == CHOOSE i \in S : \A j \in S : i <= j

\* The places of the transitions that break C1 or C5, and of the states that
\* break C2, C4 or C3.
BadTransitions ==
    {i \in 1..Len(transitions) : ~RuleC1(transitions[i]) \/ ~RuleC5(transitions[i])}

BadStates ==
    {i \in 1..Len(order) : ~RuleC2(order[i]) \/ ~RuleC4(order[i]) \/ ~RuleC3(order[i])}

\* The error the order of the checks singles out.
FirstFailure ==
    IF BadTransitions # {}
    THEN IF ~RuleC1(transitions[Least(BadTransitions)]) THEN "C1" ELSE "C5"
    ELSE IF BadStates # {}
    THEN LET s == order[Least(BadStates)]
         IN  IF ~RuleC2(s) THEN "C2" ELSE IF ~RuleC4(s) THEN "C4" ELSE "C3"
    ELSE IF \E i \in 1..Len(transitions) : ~RuleC6(transitions[i]) THEN "C6"
    ELSE "True"

\* C6: validate() raises for one rule only, chosen in a fixed order: the first
\* transition breaking C1 or C5 (C1 first), else the first state in
\* registration order breaking C2, C4 or C3 (in that order), else C6.
C6_FirstFailureWins ==
    result.op = "validate" => result.value = FirstFailure

\* validate() raised C5 for the first transition although the second breaks
\* C1, a state breaks C4 and its initial breaks C3.
C6_Witness ==
    /\ result.op = "validate"
    /\ result.value = "C5"
    /\ Len(transitions) = 2
    /\ ~RuleC1(transitions[2])
    /\ \E s \in DOMAIN states : ~RuleC4(s) /\ ~RuleC3(s)

---------------------------------------------------------------------------
(* The interpreter: a hierarchy is registered and queried. *)

\* The register_state calls made, as <<name, kind, initial, parent>>: under
\* the root, under a state (registered by then or not), under the state
\* itself, or under None.
QueryRegistrations ==
    {<<"A", "CompoundState", None, Root>>, <<"A", "CompoundState", None, "A">>,
     <<"A", "CompoundState", None, None>>,
     <<"B", "CompoundState", None, Root>>, <<"B", "CompoundState", None, "A">>,
     <<"C", "BasicState", None, Root>>, <<"C", "BasicState", None, "A">>}

\* The entries of the four caches.
Cached ==
    Cardinality(DOMAIN cache_anc) + Cardinality(DOMAIN cache_desc)
        + Cardinality(DOMAIN cache_depth) + Cardinality(DOMAIN cache_lca)

\* No call is made once the caches hold this many entries.
MaxCached == 2

\* The lists leaf_for is called with are at most this long.
MaxList == 2

\* Lists of distinct registered state names.
LeafInputs ==
    {names \in UNION {[1..n -> DOMAIN states] : n \in 0..MaxList} :
        \A i \in 1..Len(names) : \A j \in 1..Len(names) :
            names[i] = names[j] => i = j}

QueryInit == InitChart("OrthogonalState", None)

QueryNext ==
    \/ \E r \in QueryRegistrations :
            /\ r[1] \notin DOMAIN states
            /\ RegisterState(r[1], r[2], r[3], r[4])
    \/ \E state \in DOMAIN states :
            /\ Cached < MaxCached
            /\ AncestorsFor(state)
    \/ \E state \in DOMAIN states :
            /\ Cached < MaxCached
            /\ DescendantsFor(state)
    \/ \E state \in DOMAIN states :
            /\ Cached < MaxCached
            /\ DepthFor(state)
    \/ \E s1 \in DOMAIN states, s2 \in DOMAIN states :
            /\ Cached < MaxCached
            /\ LeastCommonAncestor(s1, s2)
    \/ \E names \in LeafInputs :
            /\ Cached < MaxCached
            /\ LeafFor(names)
    \/ \E x \in DOMAIN cache_desc :
            /\ Cached < MaxCached
            /\ LeafFor(Append(cache_desc[x], x))

SpecQuery == QueryInit /\ [][QueryNext]_vars

---------------------------------------------------------------------------
(* Properties of the structural queries (under SpecQuery). *)

\* The list is the parent chain of the state: its parent, the parent of that
\* one, and so on up to a state without parent.
IsParentChain(state, chain) ==
    /\ \A i \in 1..Len(chain) :
          chain[i] = parent[IF i = 1 THEN state ELSE chain[i - 1]]
    /\ parent[IF chain = <<>> THEN state ELSE chain[Len(chain)]] = None

\* C7: for a registered state, ancestors_for returns its parent chain, nearest
\* parent first, without the state itself, empty exactly for the root and
\* ending in the root otherwise; depth_for returns one more than its length,
\* and 1 for the root.
C7_AncestorsAndDepth ==
    /\ result.op = "ancestors_for"
          => /\ result.status = "ok"
             /\ IsParentChain(result.args[1], result.value)
             /\ result.args[1] \notin Range(result.value)
             /\ (result.value = <<>>) <=> (result.args[1] = Root)
             /\ result.args[1] # Root => result.value[Len(result.value)] = Root
    /\ result.op = "depth_for"
          => /\ result.status = "ok"
             /\ ancestors_for(result.args[1]).status = "ok"
             /\ result.value = 1 + Len(ancestors_for(result.args[1]).value)
             /\ result.args[1] = Root => result.value = 1

\* C8: for registered states a and b, least_common_ancestor(a, b) and
\* least_common_ancestor(b, a) return the same value (a call that raises or
\* never returns has no value: then neither returns).
C8_LcaSymmetric ==
    \A a \in DOMAIN states : \A b \in DOMAIN states :
        LET ab == least_common_ancestor(a, b)
            ba == least_common_ancestor(b, a)
        IN  /\ (ab.status = "ok") <=> (ba.status = "ok")
            /\ ab.status = "ok" => ab.value = ba.value

\* least_common_ancestor was called on two distinct states and returned a
\* state below the root.
C8_Witness ==
    /\ result.op = "least_common_ancestor"
    /\ result.status = "ok"
    /\ result.args[1] # result.args[2]
    /\ result.value \notin {None, Root}
    /\ result.value \in DOMAIN states

\* The place of a name in a list that holds it.
IndexIn(list, name) == Least({i \in 1..Len(list) : list[i] = name})

\* C9: least_common_ancestor(s1, s2) returns the first of ancestors_for(s1) that
\* is in ancestors_for(s2); it returns None exactly when s1 or s2 is the root,
\* and a registered state for two states other than the root.
C9_LcaDeepestCommon ==
    result.op = "least_common_ancestor"
        => LET s1 == result.args[1]
               s2 == result.args[2]
               a1 == ancestors_for(s1)
               a2 == ancestors_for(s2)
               common == Range(a1.value) \cap Range(a2.value)
           IN  /\ result.status = "ok"
               /\ a1.status = "ok" /\ a2.status = "ok"
               /\ common = {} => result.value = None
               /\ common # {}
                    => /\ result.value \in common
                       /\ \A c \in common :
                             IndexIn(a1.value, result.value) <= IndexIn(a1.value, c)
               /\ (result.value = None) <=> (s1 = Root \/ s2 = Root)
               /\ (s1 # Root /\ s2 # Root) => result.value \in DOMAIN states

\* The elements of the list without a descendant in the list, in its order.
Innermost(names) ==
    SelectSeq(names,
              LAMBDA n : Range(descendants_for(n).value) \cap Range(names) = {})

\* The list is descendants_for(x) + [x] for a registered state x.
IsSubtreeList(names) ==
    \E x \in DOMAIN states :
        /\ descendants_for(x).status = "ok"
        /\ names = Append(descendants_for(x).value, x)

\* C10: for a list of registered names, leaf_for returns the elements that have
\* no descendant (per descendants_for) in the list, in the order of the list;
\* of descendants_for(x) + [x] it returns the states without children.
C10_LeafForInnermost ==
    result.op = "leaf_for"
        => LET names == result.args[1]
           IN  /\ result.status = "ok"
               /\ \A n \in Range(names) : descendants_for(n).status = "ok"
               /\ result.value = Innermost(names)
               /\ IsSubtreeList(names)
                    => \A n \in Range(names) :
                          (n \in Range(result.value)) <=> (ChildrenList(n) = <<>>)

---------------------------------------------------------------------------
(* What remains of C7, C9 and C10 on a chart whose register_state calls all *)
(* named a registered composite parent, queried with no stale cache entry.  *)

\* Every state but the root is listed once under its registered parent, and
\* its parent chain ends in the root.
HierarchyIsTree ==
    /\ \A s \in DOMAIN states \ {Root} :
          /\ parent[s] \in DOMAIN states
          /\ IsComposite(states[parent[s]].kind)
          /\ Occurrences(states[parent[s]].children, s) = 1
    /\ \A s \in DOMAIN states :
          /\ AncestorsBody(s).status = "ok"
          /\ s # Root => Root \in Range(AncestorsBody(s).value)

\* Every entry of the descendants cache is what the body would return now.
DescendantsCacheFresh ==
    \A x \in DOMAIN cache_desc : DescendantsBody(x) = Returned(cache_desc[x])

AncestorsAndDepthOnTrees == HierarchyIsTree => C7_AncestorsAndDepth

LcaDeepestCommonOnTrees == HierarchyIsTree => C9_LcaDeepestCommon

LeafForInnermostOnTrees ==
    (HierarchyIsTree /\ DescendantsCacheFresh) => C10_LeafForInnermost

---------------------------------------------------------------------------
(* MicroStep, MacroStep and story_from_trace (src/sismic/testing.py).      *)
(* An Event of a trace is held by its name (Event.__eq__ compares names    *)
(* only), None when absent.  An Event of a story is the record of its name *)
(* and of its data.                                                        *)

\* MicroStep.__init__: a transition of None is stored as the empty list, and so
\* are absent lists of states.  The transition is held as a list of at most
\* one Transition, the empty list being the falsy value.
MicroStep(event, transition, entered_states, exited_states) ==
    [event |-> event, transition |-> transition,
     entered_states |-> entered_states, exited_states |-> exited_states]

MacroStep(time, steps) == [time |-> time, steps |-> steps]

\* MacroStep.event: the first truthy event of its steps, else None.
RECURSIVE MacroStepEvent(_)
MacroStepEvent(steps) ==
    IF steps = <<>> THEN None
    ELSE IF Truthy(Head(steps).event) THEN Head(steps).event
    ELSE MacroStepEvent(Tail(steps))

\* Event.__init__(self, name, **additional_parameters), called with the
\* positional arguments after name and with the keyword arguments: the
\* signature takes no positional argument but the name.
EventInit(name, positional, additional_parameters) ==
    IF positional # <<>> THEN Failed("TypeError")
    ELSE Returned([name |-> name, data |-> additional_parameters])

\* stories.Pause(duration).
Pause(duration) == [duration |-> duration]

\* story.append(item), where building the item, or an earlier statement, may
\* have raised.
StoryAppend(story, item) ==
    IF story.status # "ok" THEN story
    ELSE IF item.status # "ok" THEN Failed(item.status)
    ELSE Returned(Append(story.value, item.value))

\* testing.py lines 50-51 and 56-57: for state in ...: story.append(Event(name, {'state': state})).
RECURSIVE StateEvents(_, _, _)
StateEvents(story, name, state_names) ==
    IF state_names = <<>> THEN story
    ELSE StateEvents(
            StoryAppend(story,
                        EventInit(name, <<[state |-> Head(state_names)]>>, EmptyMap)),
            name, Tail(state_names))

\* testing.py lines 49-57: the loop over the micro steps of a macro step whose event is
\* given.
RECURSIVE MicroStepEvents(_, _, _)
MicroStepEvents(story, steps, event) ==
    IF steps = <<>> THEN story
    ELSE LET microstep == Head(steps)
             exited == StateEvents(story, "exited", microstep.exited_states)
             processed ==
                 IF microstep.transition # <<>>
                 THEN StoryAppend(exited,
                          EventInit("processed",
                                    <<[source |-> microstep.transition[1].from_state,
                                       target |-> microstep.transition[1].to_state,
                                       event |-> event]>>,
                                    EmptyMap))
                 ELSE exited
             entered == StateEvents(processed, "entered", microstep.entered_states)
         IN  MicroStepEvents(entered, Tail(steps), event)

\* testing.py lines 41-57: the loop over the macro steps, with the story and time so far.
RECURSIVE MacroStepEvents(_, _, _)
MacroStepEvents(story, time, trace) ==
    IF trace = <<>> THEN story
    ELSE LET macrostep == Head(trace)
             late == macrostep.time > time
             paused ==
                 IF late
                 THEN StoryAppend(story, Returned(Pause(macrostep.time - time)))
                 ELSE story
             event == MacroStepEvent(macrostep.steps)
             consumed ==
                 IF Truthy(event)
                 THEN StoryAppend(paused,
                          EventInit("consumed", <<[event |-> event]>>, EmptyMap))
                 ELSE paused
         IN  MacroStepEvents(MicroStepEvents(consumed, macrostep.steps, event),
                             IF late THEN macrostep.time ELSE time,
                             Tail(trace))

\* testing.py lines 37-60: story_from_trace.
story_from_trace(trace) ==
    LET started == StoryAppend(Returned(<<>>), EventInit("started", <<>>, EmptyMap))
        stepped == MacroStepEvents(started, 0, trace)
    IN  StoryAppend(stepped, EventInit("stopped", <<>>, EmptyMap))

StoryFromTrace(trace) ==
    /\ result' = Outcome("story_from_trace", <<trace>>, story_from_trace(trace))
    /\ UNCHANGED <<states, order, parent, transitions,
                   cache_anc, cache_desc, cache_depth, cache_lca>>

(* The traces an interpreter hands over. *)

\* A stabilization step that enters states, a step that fires A1 -> A2 on
\* "go", an internal eventless step, a step that consumes "go" and fires
\* nothing, and a step that does nothing.
StoryMicroSteps ==
    [enter |-> MicroStep(None, <<>>, <<"A", "A1">>, <<>>),
     go |-> MicroStep("go", <<Transition("A1", "A2", "go", None)>>,
                      <<"A2">>, <<"A1">>),
     internal |-> MicroStep(None, <<Transition("A2", None, None, "g")>>, <<>>, <<>>),
     drop |-> MicroStep("go", <<>>, <<>>, <<>>),
     idle |-> MicroStep(None, <<>>, <<>>, <<>>)]

StoryMacroSteps ==
    {MacroStep(0, <<StoryMicroSteps.enter>>),
     MacroStep(0, <<>>),
     MacroStep(1, <<>>),
     MacroStep(1, <<StoryMicroSteps.idle>>),
     MacroStep(1, <<StoryMicroSteps.go>>),
     MacroStep(1, <<StoryMicroSteps.enter, StoryMicroSteps.go>>),
     MacroStep(1, <<StoryMicroSteps.internal, StoryMicroSteps.go>>),
     MacroStep(2, <<StoryMicroSteps.go, StoryMicroSteps.enter>>),
     MacroStep(2, <<StoryMicroSteps.internal>>),
     MacroStep(2, <<StoryMicroSteps.drop>>),
     MacroStep(2, <<StoryMicroSteps.idle, StoryMicroSteps.idle>>),
     MacroStep(3, <<>>)}

\* A trace holds at most this many macro steps.
MaxTrace == 2

StoryTraces == UNION {[1..n -> StoryMacroSteps] : n \in 0..MaxTrace}

StoryInit == InitChart("CompoundState", None)

StoryNext ==
    \E trace \in StoryTraces :
        /\ result.op = "__init__"
        /\ StoryFromTrace(trace)

SpecStory == StoryInit /\ [][StoryNext]_vars

---------------------------------------------------------------------------
(* Properties of story_from_trace (under SpecStory). *)

StoryEvent(name, data) == [name |-> name, data |-> data]

RECURSIVE Flatten(_)
Flatten(lists) ==
    IF lists = <<>> THEN <<>> ELSE Head(lists) \o Flatten(Tail(lists))

\* The running clock before the i-th macro step: the greatest time so far,
\* from 0.
RECURSIVE ClockBefore(_, _)
ClockBefore(trace, i) ==
    IF i = 1 THEN 0
    ELSE LET before == ClockBefore(trace, i - 1)
         IN  IF trace[i - 1].time > before THEN trace[i - 1].time ELSE before

\* What a micro step contributes, in a macro step of the given event.
MicroStepStory(microstep, event) ==
    [i \in 1..Len(microstep.exited_states) |->
        StoryEvent("exited", [state |-> microstep.exited_states[i]])]
    \o (IF microstep.transition # <<>>
        THEN <<StoryEvent("processed",
                          [source |-> microstep.transition[1].from_state,
                           target |-> microstep.transition[1].to_state,
                           event |-> event])>>
        ELSE <<>>)
    \o [i \in 1..Len(microstep.entered_states) |->
        StoryEvent("entered", [state |-> microstep.entered_states[i]])]

\* What the i-th macro step contributes.
MacroStepStory(trace, i) ==
    LET macrostep == trace[i]
        clock == ClockBefore(trace, i)
        event == MacroStepEvent(macrostep.steps)
    IN  (IF macrostep.time > clock THEN <<Pause(macrostep.time - clock)>> ELSE <<>>)
        \o (IF event # None THEN <<StoryEvent("consumed", [event |-> event])>>
            ELSE <<>>)
        \o Flatten([j \in 1..Len(macrostep.steps) |->
                       MicroStepStory(macrostep.steps[j], event)])

ExpectedStory(trace) ==
    <<StoryEvent("started", EmptyMap)>>
    \o Flatten([i \in 1..Len(trace) |-> MacroStepStory(trace, i)])
    \o <<StoryEvent("stopped", EmptyMap)>>

\* C11: story_from_trace does not fail, and returns 'started', then for each
\* macro step a Pause iff its time exceeds the running clock, 'consumed' iff it
\* has an event, and per micro step the 'exited' events, 'processed' iff it has
\* a transition, and the 'entered' events, then 'stopped'.
C11_StoryFromTrace ==
    result.op = "story_from_trace"
        => /\ result.status = "ok"
           /\ result.value = ExpectedStory(result.args[1])

\* The trace makes story_from_trace build no Event but 'started' and 'stopped'.
IsBareTrace(trace) ==
    \A i \in 1..Len(trace) : \A j \in 1..Len(trace[i].steps) :
        trace[i].steps[j] = StoryMicroSteps.idle

\* What remains of C11: the call raises TypeError exactly when it has to build
\* an Event with data, and returns the story of C11 otherwise.
StoryOfBareTraces ==
    result.op = "story_from_trace"
        => IF IsBareTrace(result.args[1])
           THEN /\ result.status = "ok"
                /\ result.value = ExpectedStory(result.args[1])
           ELSE result.status = "TypeError"

---------------------------------------------------------------------------
(* The caches against the hierarchy as it grows (under SpecQuery). *)

\* What the three queries over parent chains return now equals what their
\* bodies compute from the chart with empty caches.
AncestorQueriesFresh ==
    \A s \in DOMAIN states :
        /\ ancestors_for(s) = AncestorsBody(s)
        /\ depth_for(s) = DepthBody(EmptyMap, s)
        /\ \A s2 \in DOMAIN states :
              least_common_ancestor(s, s2) = LcaBody(EmptyMap, s, s2)

\* The same for descendants_for.
DescendantsQueryFresh ==
    \A s \in DOMAIN states : descendants_for(s) = DescendantsBody(s)

\* C12: whatever register_state calls and queries came before, each of
\* ancestors_for, depth_for, descendants_for and least_common_ancestor returns
\* for registered states what an uncached computation over the current
\* hierarchy returns.
C12_CachesNeverStale == AncestorQueriesFresh /\ DescendantsQueryFresh

\* What remains of C12: the caches of the queries over parent chains are never
\* stale, since _parent only grows and a call that raises caches nothing.
AncestorCachesNeverStale == AncestorQueriesFresh

---------------------------------------------------------------------------
(* The shape of the parent relation (under SpecRegister). *)

\* The states met from a state by following _parent, the state excluded.
RECURSIVE ParentsAbove(_)
ParentsAbove(S) ==
    LET T == S \cup {parent[n] : n \in {m \in S : m \in DOMAIN parent}}
    IN  IF T = S THEN S ELSE ParentsAbove(T)

StrictlyAbove(s) == ParentsAbove({parent[s]})

\* C13: whatever register_state calls were made, no state is above itself in
\* the parent relation and the root is above every other state, and
\* ancestors_for(s) and descendants_for(s) end for every registered state s.
C13_ParentRelationAcyclic ==
    \A s \in DOMAIN states :
        /\ s \notin StrictlyAbove(s)
        /\ s # Root => Root \in StrictlyAbove(s)
        /\ AncestorsBody(s).status # "diverges"
        /\ DescendantsBody(s).status # "diverges"

===========================================================================
